---- MODULE Spec2Model ----
(***************************************************************************)
(* Model of gogetdoc's identifier documentation lookup (ident.go):         *)
(* findTypeSpec, findVarSpec, formatNode and IdentDoc.                     *)
(*                                                                         *)
(* The semantic model is one ancestor path of declaration nodes, innermost *)
(* first (what PathEnclosingInterval returns for the innermost position),  *)
(* and identifiers defined at different depths of it.  A lookup is one     *)
(* action, the whole of IdentDoc.  Rendered text is a sequence of tokens,  *)
(* comment text is a string.                                               *)
(***************************************************************************)
EXTENDS Integers, Sequences, FiniteSets, TLC

VARIABLES
    tree,    \* the shared declaration tree: the ancestor path, innermost first
    ref,     \* a remembered earlier call: [id, out], or NoCall
    last,    \* the latest call: [id, out, before], or NoCall
    mixed    \* TRUE when a call of another identifier followed the remembered one

vars == <<tree, ref, last, mixed>>

\* ------------------------------------------------------------------ bounds
MaxChain == 2
MaxSpecs == 2

\* ------------------------------------------------------------ the Go values
NoPos == 0            \* token.NoPos
NoCall == [kind |-> "nocall"]

\* A *ast.CommentGroup: nil, or the raw comments of the group, each with its
\* markers ("//...", "/*...*/").
Nil == [present |-> FALSE, list |-> <<>>]
Comments(list) == [present |-> TRUE, list |-> list]
NilBody == "nil"      \* a nil *ast.BlockStmt
NoPkg == "nil"        \* obj.Pkg() == nil

CEmpty == Comments(<<"//go:generate stringer", "//  ", "/**/">>)
CDoc == Comments(<<"// Foo does X.">>)
CLead == Comments(<<"// lead  ", "//", "/* more\n  */">>)
CTrail == Comments(<<"// units: ms">>)
CLine == Comments(<<"// two">>)

\* ast.CommentGroup.Text (go/ast, Go 1.15 and later): nil gives "".  Of a "//"
\* comment the marker and one leading space are removed, and a directive
\* (//go:generate, //line ...) is skipped; of a "/*" comment both markers are
\* removed.  The rest is split into lines, trailing white space is stripped,
\* leading blank lines are dropped, runs of blank lines collapse, and the
\* text of a group with any line left ends in a newline.
CharAt(c, i) == SubSeq(c, i, i)
HasPrefix(c, p) == Len(c) >= Len(p) /\ SubSeq(c, 1, Len(p)) = p
LowerOrDigit ==
    {"a", "b", "c", "d", "e", "f", "g", "h", "i", "j", "k", "l", "m", "n", "o",
     "p", "q", "r", "s", "t", "u", "v", "w", "x", "y", "z",
     "0", "1", "2", "3", "4", "5", "6", "7", "8", "9"}

\* isDirective, of a "//" comment without its marker.
isDirective(c) ==
    \/ HasPrefix(c, "line ") \/ HasPrefix(c, "extern ") \/ HasPrefix(c, "export ")
    \/ \E colon \in 2..(Len(c) - 1) :
          /\ CharAt(c, colon) = ":"
          /\ \A i \in 1..(colon - 1) : CharAt(c, i) # ":"
          /\ \A i \in 1..(colon + 1) : i # colon => CharAt(c, i) \in LowerOrDigit

\* Marker removal: skip is a comment that contributes no line.
StripMarker(c) ==
    IF CharAt(c, 2) = "/"
    THEN LET b == SubSeq(c, 3, Len(c))
         IN  IF Len(b) = 0 THEN [skip |-> FALSE, text |-> b]
             ELSE IF CharAt(b, 1) = " "
                  THEN [skip |-> FALSE, text |-> SubSeq(b, 2, Len(b))]
             ELSE IF isDirective(b) THEN [skip |-> TRUE, text |-> ""]
             ELSE [skip |-> FALSE, text |-> b]
    ELSE [skip |-> FALSE, text |-> SubSeq(c, 3, Len(c) - 2)]

RECURSIVE stripTrailingWhitespace(_)
stripTrailingWhitespace(l) ==
    IF Len(l) > 0 /\ CharAt(l, Len(l)) \in {" ", "\t", "\n", "\r"}
    THEN stripTrailingWhitespace(SubSeq(l, 1, Len(l) - 1))
    ELSE l

\* strings.Split(c, "\n"), from position i with the line begun at from.
RECURSIVE SplitLines(_, _, _)
SplitLines(c, from, i) ==
    IF i > Len(c) THEN <<SubSeq(c, from, Len(c))>>
    ELSE IF CharAt(c, i) = "\n"
         THEN <<SubSeq(c, from, i - 1)>> \o SplitLines(c, i + 1, i + 1)
    ELSE SplitLines(c, from, i + 1)

\* The lines of the comments of a group, in order.
RECURSIVE CommentLines(_)
CommentLines(list) ==
    IF list = <<>> THEN <<>>
    ELSE LET m == StripMarker(Head(list))
             cl == SplitLines(m.text, 1, 1)
         IN  (IF m.skip THEN <<>>
              ELSE [k \in 1..Len(cl) |-> stripTrailingWhitespace(cl[k])])
             \o CommentLines(Tail(list))

RECURSIVE KeepLines(_, _)
KeepLines(lines, kept) ==
    IF lines = <<>> THEN kept
    ELSE LET line == Head(lines)
         IN  IF line # "" \/ (Len(kept) > 0 /\ kept[Len(kept)] # "")
             THEN KeepLines(Tail(lines), Append(kept, line))
             ELSE KeepLines(Tail(lines), kept)

RECURSIVE Join(_)
Join(lines) ==
    IF lines = <<>> THEN ""
    ELSE IF Len(lines) = 1 THEN lines[1]
    ELSE lines[1] \o "\n" \o Join(Tail(lines))

Text(g) ==
    IF g = Nil THEN ""
    ELSE LET raw == CommentLines(g.list)
             kept == KeepLines(raw, <<>>)
             final == IF Len(kept) > 0 /\ kept[Len(kept)] # ""
                      THEN Append(kept, "") ELSE kept
         IN  Join(final)

\* ---------------------------------------------------------------- the nodes
Names == {"A", "B"}

\* Initializer expressions: a basic literal or any other expression.
Lit(v) == [lit |-> TRUE, value |-> v]
Expr(v) == [lit |-> FALSE, value |-> v]

\* Specs of a value declaration (var, const) and of a type declaration.
\* Each has a doc comment and a trailing line comment, either may be nil.
ValueSpec(names, values, doc, comment) ==
    [kind |-> "ValueSpec", names |-> names, values |-> values, doc |-> doc,
     comment |-> comment]
TypeSpec(name, doc, comment) ==
    [kind |-> "TypeSpec", names |-> <<name>>, values |-> <<>>, doc |-> doc,
     comment |-> comment]

ValueSpecSet ==
    { ValueSpec(<<"A">>, <<Lit("1")>>, Nil, Nil),
      ValueSpec(<<"A">>, <<Expr("x")>>, Nil, CLine),
      ValueSpec(<<"B">>, <<Lit("2")>>, CDoc, CLine),
      ValueSpec(<<"B">>, <<Expr("x")>>, Nil, Nil),
      ValueSpec(<<"A", "B">>, <<Expr("x"), Lit("3")>>, Nil, Nil) }

TypeSpecSet == { TypeSpec("A", Nil, Nil), TypeSpec("B", CDoc, CLine) }

SpecSetOf(tok) == IF tok = "type" THEN TypeSpecSet ELSE ValueSpecSet

SeqsUpTo(S, n) == UNION { [1..k -> S] : k \in 1..n }

FuncDecl(doc) ==
    [kind |-> "FuncDecl", name |-> "F", doc |-> doc, body |-> "{ return x+1 }"]
GenDecl(tok, doc, specs, lparen) ==
    [kind |-> "GenDecl", tok |-> tok, doc |-> doc, specs |-> specs,
     lparen |-> lparen, rparen |-> IF lparen = NoPos THEN NoPos ELSE lparen + 1]
Field(doc, comment) == [kind |-> "Field", doc |-> doc, comment |-> comment]
Other == [kind |-> "Other"]

Supported(n) == n.kind \in {"FuncDecl", "GenDecl", "Field"}

\* A parsed declaration is parenthesized or holds exactly one Spec.
GroupShapes(tok, n) ==
    { [specs |-> sp, lparen |-> lp] :
        sp \in SeqsUpTo(SpecSetOf(tok), n), lp \in {NoPos, 1} }

GenDeclsOf(tok) ==
    { GenDecl(tok, doc, sh.specs, sh.lparen) :
        doc \in {Nil, CEmpty, CDoc},
        sh \in { g \in GroupShapes(tok, MaxSpecs) :
                    g.lparen = NoPos => Len(g.specs) = 1 } }

RichGenDecls == UNION { GenDeclsOf(tok) : tok \in {"type", "var", "const"} }

\* The nodes of the longer chains.
ConstAB ==
    <<ValueSpec(<<"A">>, <<Lit("1")>>, Nil, Nil),
      ValueSpec(<<"B">>, <<Lit("2")>>, Nil, Nil)>>
ChainNodes ==
    { FuncDecl(d) : d \in {Nil, CDoc} }
    \cup { Field(d, c) : d \in {Nil, CEmpty, CLead}, c \in {Nil, CTrail} }
    \cup { Other }
    \cup { GenDecl("const", d, ConstAB, 1) : d \in {Nil, CEmpty, CDoc} }
    \cup { GenDecl("var", Nil, <<ValueSpec(<<"A">>, <<Expr("x")>>, Nil, Nil)>>, NoPos),
           GenDecl("type", CDoc, <<TypeSpec("A", Nil, CLine)>>, NoPos) }

\* A function declaration is a top-level declaration: outward of it the chain
\* holds only nodes of other kinds (the file).
WellFormed(t) ==
    \A i \in 1..Len(t) : t[i].kind = "FuncDecl" =>
        \A j \in (i+1)..Len(t) : t[j].kind = "Other"

Trees ==
    { <<g>> : g \in RichGenDecls }
    \cup { t \in SeqsUpTo(ChainNodes, MaxChain) : WellFormed(t) }

\* --------------------------------------------------- identifiers and objects
\* An identifier reference: a name declared at a depth of the tree, a
\* built-in of the universe scope, or the name of an imported package.
Idents(t) ==
    { [class |-> "decl", name |-> n, pos |-> p] : n \in Names, p \in 1..Len(t) }
    \cup { [class |-> "builtin", name |-> "len", pos |-> NoPos],
           [class |-> "pkgname", name |-> "P", pos |-> NoPos],
           [class |-> "pkgname", name |-> "P", pos |-> 1] }

AppPath == "example.com/app"
LibPath == "example.com/lib"

\* info.ObjectOf(id): the object, its owning package (nil for built-ins) and,
\* for a package name, the imported package.
ObjectOf(id) ==
    [name |-> id.name, pos |-> id.pos,
     pkg |-> IF id.class = "builtin" THEN NoPkg ELSE AppPath,
     alias |-> id.class = "pkgname",
     imported |-> IF id.class = "pkgname" THEN LibPath ELSE NoPkg]

\* types.Object.String(): the symbol's default textual representation.
ObjString(obj) ==
    <<"object", (IF obj.pkg = NoPkg THEN "" ELSE obj.pkg \o ".") \o obj.name>>

\* prog.PathEnclosingInterval(pos, pos): the nodes enclosing the position,
\* innermost first; none for NoPos.
PathEnclosingInterval(t, pos) ==
    IF pos = NoPos \/ pos > Len(t) THEN <<>> ELSE SubSeq(t, pos, Len(t))

\* ------------------------------------------------------------ ident.go 14-34
\* The finders return a pointer to a Spec of the declaration: here its index,
\* 0 for nil.
RECURSIVE findTypeSpecFrom(_, _, _)
findTypeSpecFrom(decl, symbol, i) ==
    IF i > Len(decl.specs) THEN 0
    ELSE IF symbol = decl.specs[i].names[1] THEN i
    ELSE findTypeSpecFrom(decl, symbol, i + 1)

findTypeSpec(decl, symbol) == findTypeSpecFrom(decl, symbol, 1)

RECURSIVE findVarSpecFrom(_, _, _)
findVarSpecFrom(decl, symbol, i) ==
    IF i > Len(decl.specs) THEN 0
    ELSE IF \E k \in 1..Len(decl.specs[i].names) : decl.specs[i].names[k] = symbol
         THEN i
    ELSE findVarSpecFrom(decl, symbol, i + 1)

\* findVarSpec keeping the last match: the loop without its early return.
findVarSpecLast(decl, symbol) ==
    LET hits == { i \in 1..Len(decl.specs) :
                    \E k \in 1..Len(decl.specs[i].names) :
                        decl.specs[i].names[k] = symbol }
    IN  IF hits = {} THEN 0 ELSE CHOOSE i \in hits : \A j \in hits : j <= i

findVarSpec(decl, symbol) == findVarSpecFrom(decl, symbol, 1)

\* ------------------------------------------------------- go/printer, as tokens
CommentTokens(g) == IF g = Nil THEN <<>> ELSE g.list

RECURSIVE Commas(_)
Commas(ws) ==
    IF Len(ws) <= 1 THEN ws ELSE <<ws[1], ",">> \o Commas(Tail(ws))

\* A Spec: its doc comment, the names, the type or the values, and its
\* trailing line comment.
PrintSpec(s) ==
    CommentTokens(s.doc)
    \o Commas(s.names)
    \o (IF s.kind = "TypeSpec" THEN <<"struct{}">> ELSE <<>>)
    \o (IF s.values = <<>> THEN <<>>
        ELSE <<"=">> \o Commas([k \in 1..Len(s.values) |-> s.values[k].value]))
    \o CommentTokens(s.comment)

RECURSIVE PrintSpecs(_)
PrintSpecs(specs) ==
    IF specs = <<>> THEN <<>>
    ELSE PrintSpec(specs[1]) \o <<";">> \o PrintSpecs(Tail(specs))

PrintGenDecl(d) ==
    CommentTokens(d.doc) \o <<d.tok>>
    \o (IF d.lparen # NoPos \/ Len(d.specs) # 1
        THEN <<"(">> \o PrintSpecs(d.specs) \o <<")">>
        ELSE PrintSpec(d.specs[1]))

PrintFuncDecl(d) ==
    CommentTokens(d.doc) \o <<"func", d.name, "(x int) int">>
    \o (IF d.body = NilBody THEN <<>> ELSE <<d.body>>)

\* printer.Config.Fprint: an error for a node it does not support.
Fprint(nc) ==
    IF nc.kind = "FuncDecl" THEN [err |-> FALSE, text |-> PrintFuncDecl(nc)]
    ELSE IF nc.kind = "GenDecl" THEN [err |-> FALSE, text |-> PrintGenDecl(nc)]
    ELSE [err |-> TRUE, text |-> <<>>]

\* ------------------------------------------------------------ ident.go 36-93
\* The copy formatNode builds (lines 40-84): nc is the node handed to the
\* printer, early is the return of obj.String() at lines 81 and 83, panic is
\* the dereference of a nil Spec at lines 56 and 63.
OnlySpec(cp, spec) ==
    [cp EXCEPT !.specs = <<[spec EXCEPT !.doc = Nil]>>,
               !.lparen = NoPos, !.rparen = NoPos]

renderCopy(n, obj) ==
    IF n.kind = "FuncDecl"
    THEN [panic |-> FALSE, early |-> FALSE,
          nc |-> [n EXCEPT !.doc = Nil, !.body = NilBody]]
    ELSE IF n.kind = "GenDecl"
    THEN LET cp == [n EXCEPT !.doc = Nil]
         IN  IF Len(n.specs) > 0
             THEN IF n.specs[1].kind = "TypeSpec"
                  THEN LET spec == findTypeSpec(n, obj.name)
                       IN  IF spec = 0
                           THEN [panic |-> TRUE, early |-> FALSE, nc |-> cp]
                           ELSE [panic |-> FALSE, early |-> FALSE,
                                 nc |-> OnlySpec(cp, n.specs[spec])]
                  ELSE IF n.specs[1].kind = "ValueSpec"
                  THEN LET spec == findVarSpec(n, obj.name)
                       IN  IF spec = 0
                           THEN [panic |-> TRUE, early |-> FALSE, nc |-> cp]
                           ELSE [panic |-> FALSE, early |-> FALSE,
                                 nc |-> OnlySpec(cp, n.specs[spec])]
                  ELSE [panic |-> FALSE, early |-> FALSE, nc |-> cp]
             ELSE [panic |-> FALSE, early |-> FALSE, nc |-> cp]
    ELSE [panic |-> FALSE, early |-> TRUE, nc |-> n]

\* The text formatNode returns (lines 81-92) for a copy it did build.
renderText(r, obj) ==
    IF r.early THEN ObjString(obj)
    ELSE LET p == Fprint(r.nc)
         IN  IF p.err THEN ObjString(obj) ELSE p.text

\* formatNode with "cp := n" for "cp := *n": the edits land in the shared node.
formatNodeInPlace(n, obj) ==
    LET r == renderCopy(n, obj)
    IN  [panic |-> r.panic,
         title |-> IF r.panic THEN <<>> ELSE renderText(r, obj),
         node |-> r.nc]

\* formatNode: the title, or a panic; node is the shared node after the call,
\* which the copies (cp := *n, specCp := *spec) leave as it was.
formatNode(n, obj) ==
    LET r == renderCopy(n, obj)
    IN  [panic |-> r.panic,
         title |-> IF r.panic THEN <<>> ELSE renderText(r, obj),
         node |-> n]

\* ----------------------------------------------------------- ident.go 96-174
\* PackageDoc (another file of the program): the package-level record for a
\* canonical import path; it carries no declaration title.
PackageDoc(path) ==
    [kind |-> "Doc", Import |-> path, Name |-> "lib", Title |-> <<>>,
     Doc |-> "Package lib.\n", titleAt |-> 0, docAt |-> 0]

\* The redirect keyed by the package that holds the import.
aliasDocOfOwner(obj) == PackageDoc(obj.pkg)

\* Lines 105-107: the redirect of a package name.
aliasDoc(obj) == PackageDoc(obj.imported)

\* The first walk without its break: the outermost renderable node wins.
firstDeclNoBreak(nodes, i) ==
    IF \E k \in i..Len(nodes) : nodes[k].kind \in {"FuncDecl", "GenDecl", "Field"}
    THEN CHOOSE k \in i..Len(nodes) :
            /\ nodes[k].kind \in {"FuncDecl", "GenDecl", "Field"}
            /\ \A m \in (k+1)..Len(nodes) :
                    nodes[m].kind \notin {"FuncDecl", "GenDecl", "Field"}
    ELSE 0

\* Lines 114-126: the first node of a renderable kind, 0 when there is none.
RECURSIVE firstDecl(_, _)
firstDecl(nodes, i) ==
    IF i > Len(nodes) THEN 0
    ELSE IF nodes[i].kind \in {"FuncDecl", "GenDecl", "Field"} THEN i
    ELSE firstDecl(nodes, i + 1)

\* Lines 145-152: the first non-empty basic literal among the values.
RECURSIVE firstLit(_, _)
firstLit(values, k) ==
    IF k > Len(values) THEN ""
    ELSE IF values[k].lit /\ values[k].value # "" THEN values[k].value
    ELSE firstLit(values, k + 1)

\* Lines 140-154: constValue, over the Specs in declaration order.
RECURSIVE specLoop(_, _)
specLoop(specs, i) ==
    IF i > Len(specs) THEN ""
    ELSE LET v == firstLit(specs[i].values, 1)
         IN  IF v # "" THEN v ELSE specLoop(specs, i + 1)

\* constValue without the break out of SpecLoop: the last literal wins.
RECURSIVE specLoopLast(_, _)
specLoopLast(specs, i) ==
    IF i < 1 THEN ""
    ELSE LET v == firstLit(specs[i].values, 1)
         IN  IF v # "" THEN v ELSE specLoopLast(specs, i - 1)

constValueOfLast(n) ==
    IF n.tok = "const" THEN specLoopLast(n.specs, Len(n.specs)) ELSE ""

constValueOf(n) == IF n.tok = "const" THEN specLoop(n.specs, 1) ELSE ""

\* The GenDecl rule returning whether or not the group has a doc comment.
genDeclDocAlways(n) ==
    LET constValue == constValueOf(n)
    IN  [ret |-> TRUE,
         doc |-> Text(n.doc) \o
                 (IF constValue # "" THEN "\nConstant Value: " \o constValue
                  ELSE "")]

\* Lines 155-161: the GenDecl rule; ret is whether the walk returns here.
genDeclDoc(n) ==
    LET constValue == constValueOf(n)
    IN  IF n.doc # Nil
        THEN [ret |-> TRUE,
              doc |-> Text(n.doc) \o
                      (IF constValue # "" THEN "\nConstant Value: " \o constValue
                       ELSE "")]
        ELSE [ret |-> FALSE, doc |-> ""]

\* The Field rule with the two comments tried in the other order.
fieldDocTrailingFirst(n) ==
    IF n.comment # Nil THEN [ret |-> TRUE, doc |-> Text(n.comment)]
    ELSE IF n.doc # Nil THEN [ret |-> TRUE, doc |-> Text(n.doc)]
    ELSE [ret |-> FALSE, doc |-> ""]

\* Lines 162-171: the Field rule.
fieldDoc(n) ==
    IF n.doc # Nil THEN [ret |-> TRUE, doc |-> Text(n.doc)]
    ELSE IF n.comment # Nil THEN [ret |-> TRUE, doc |-> Text(n.comment)]
    ELSE [ret |-> FALSE, doc |-> ""]

\* Lines 132-173: the second walk; at is the node the walk returned at, 0 when
\* the chain was exhausted.
RECURSIVE docWalk(_, _)
docWalk(nodes, i) ==
    IF i > Len(nodes) THEN [doc |-> "", at |-> 0]
    ELSE LET n == nodes[i]
             r == IF n.kind = "FuncDecl" THEN [ret |-> TRUE, doc |-> Text(n.doc)]
                  ELSE IF n.kind = "GenDecl" THEN genDeclDoc(n)
                  ELSE IF n.kind = "Field" THEN fieldDoc(n)
                  ELSE [ret |-> FALSE, doc |-> ""]
         IN  IF r.ret THEN [doc |-> r.doc, at |-> i] ELSE docWalk(nodes, i + 1)

\* Both failures carry the message "No documentation found for <name>"; they
\* differ in the line that returns them (111 and 129).
NotFound(obj) ==
    [kind |-> "NotFound", msg |-> "No documentation found for " \o obj.name]
NoDocumentation(obj) ==
    [kind |-> "NoDocumentation", msg |-> "No documentation found for " \o obj.name]
Panic == [kind |-> "panic"]

\* IdentDoc: the outcome and the tree the call leaves behind.
IdentDoc(id, t) ==
    LET obj == ObjectOf(id)
        pkgPath == IF obj.pkg # NoPkg THEN obj.pkg ELSE ""
    IN  IF obj.alias THEN [out |-> aliasDoc(obj), tree |-> t]
        ELSE
        LET nodes == PathEnclosingInterval(t, obj.pos)
            i == firstDecl(nodes, 1)
        IN  IF Len(nodes) = 0 THEN [out |-> NotFound(obj), tree |-> t]
            ELSE IF i = 0 THEN [out |-> NoDocumentation(obj), tree |-> t]
            ELSE
            LET f == formatNode(nodes[i], obj)
                t1 == [t EXCEPT ![obj.pos + i - 1] = f.node]
                w == docWalk(PathEnclosingInterval(t1, obj.pos), 1)
            IN  IF f.panic THEN [out |-> Panic, tree |-> t1]
                ELSE [out |-> [kind |-> "Doc", Import |-> pkgPath,
                               Name |-> obj.name, Title |-> f.title,
                               Doc |-> w.doc, titleAt |-> i, docAt |-> w.at],
                      tree |-> t1]

\* ------------------------------------------------------------- the machine
Init ==
    /\ tree \in Trees
    /\ ref = NoCall
    /\ last = NoCall
    /\ mixed = FALSE

\* One call of IdentDoc.
Lookup ==
    \E id \in Idents(tree) :
        LET r == IdentDoc(id, tree)
        IN  /\ tree' = r.tree
            /\ last' = [kind |-> "call", id |-> id, out |-> r.out]
            /\ ref' = ref
            /\ mixed' = (mixed \/ (ref # NoCall /\ id # ref.id))

\* One call of IdentDoc whose outcome the caller keeps for comparison.
LookupAndKeep ==
    /\ ref = NoCall
    /\ \E id \in Idents(tree) :
        LET r == IdentDoc(id, tree)
        IN  /\ tree' = r.tree
            /\ last' = [kind |-> "call", id |-> id, out |-> r.out]
            /\ ref' = [kind |-> "call", id |-> id, out |-> r.out]
            /\ mixed' = FALSE

Next == Lookup \/ LookupAndKeep

Spec == Init /\ [][Next]_vars

\* ------------------------------------------------------------- the claims
Called == last.kind = "call"
Obj == ObjectOf(last.id)
Chain == PathEnclosingInterval(tree, Obj.pos)
Documented == Called /\ ~Obj.alias /\ last.out.kind = "Doc"
TitleNode == Chain[last.out.titleAt]
DocNode == Chain[last.out.docAt]

\* C1: rendering is total: whatever the declaration node and the target name,
\* formatNode yields a string and never aborts.
C1_RenderTotal == Called => last.out.kind # "panic"

\* The least index of a chain whose node satisfies P, 0 when there is none.
Least(nodes, P(_)) ==
    IF \E i \in 1..Len(nodes) : P(nodes[i])
    THEN CHOOSE i \in 1..Len(nodes) :
            P(nodes[i]) /\ \A j \in 1..(i-1) : ~P(nodes[j])
    ELSE 0

\* The documentation text a node yields for its kind.
Yield(n) ==
    IF n.kind = "FuncDecl" THEN Text(n.doc)
    ELSE IF n.kind = "GenDecl" THEN genDeclDoc(n).doc
    ELSE IF n.kind = "Field" THEN fieldDoc(n).doc
    ELSE ""
YieldsText(n) == n.kind = "FuncDecl" \/ Yield(n) # ""

\* The comment group a GenDecl or Field rule reads, nil when it has none.
RuleComment(n) ==
    IF n.kind = "GenDecl" THEN n.doc
    ELSE IF n.kind = "Field" THEN (IF n.doc # Nil THEN n.doc ELSE n.comment)
    ELSE Nil
Commented(n) == n.kind = "FuncDecl" \/ RuleComment(n) # Nil

\* C2 as stated: DocText comes from the first node that yields non-empty text
\* (a FuncDecl always ends the walk), so a DocText supplied by a GenDecl or a
\* Field is non-empty.
C2_FirstNonEmpty ==
    Documented =>
        /\ last.out.docAt = Least(Chain, YieldsText)
        /\ (last.out.docAt > 0 /\ DocNode.kind \in {"GenDecl", "Field"}
                => last.out.Doc # "")

\* C2 amended: DocText comes from the first node that is a FuncDecl, a GenDecl
\* with a doc comment or a Field with a leading or trailing comment, whatever
\* the comment's text; it is empty when the chain has no such node, and a
\* DocText supplied by a GenDecl or a Field is empty only when the text of the
\* comment group read is empty.
C2_FirstCommented ==
    Documented =>
        /\ last.out.docAt = Least(Chain, Commented)
        /\ (last.out.docAt = 0 => last.out.Doc = "")
        /\ (last.out.docAt > 0 /\ DocNode.kind = "FuncDecl"
                => last.out.Doc = Text(DocNode.doc))
        /\ (last.out.docAt > 0 /\ DocNode.kind \in {"GenDecl", "Field"}
                => /\ RuleComment(DocNode) # Nil
                   /\ (last.out.Doc = "" => Text(RuleComment(DocNode)) = ""))

\* A Field whose leading comment has no text ended the walk with an empty
\* DocText although a documented declaration encloses it.
C2_Witness ==
    /\ Documented
    /\ last.out.docAt > 0
    /\ DocNode.kind = "Field"
    /\ last.out.Doc = ""
    /\ \E j \in (last.out.docAt + 1)..Len(Chain) : Yield(Chain[j]) # ""

\* The Spec of a declaration the title is about: the first, in declaration
\* order, one of whose names is the target.
Declares(s, name) == \E k \in 1..Len(s.names) : s.names[k] = name
TargetSpec(d, name) ==
    CHOOSE i \in 1..Len(d.specs) :
        /\ Declares(d.specs[i], name)
        /\ \A j \in 1..(i-1) : ~Declares(d.specs[j], name)
Tokens(title) == { title[k] : k \in 1..Len(title) }

\* C3: the Title rendered from a type/var/const group holds exactly one Spec,
\* the first in declaration order that declares the target name, without
\* grouping parentheses, and neither the group's nor that Spec's doc comment
\* (the Spec's trailing line comment, which formatNode leaves, is printed).
C3_OnlyTargetSpec ==
    Documented /\ TitleNode.kind = "GenDecl" =>
        LET d == TitleNode
            s == d.specs[TargetSpec(d, Obj.name)]
        IN  /\ last.out.Title = <<d.tok>> \o PrintSpec([s EXCEPT !.doc = Nil])
            /\ Tokens(last.out.Title) \cap {"(", ")", ";"} = {}
            /\ Tokens(last.out.Title) \cap
                  (Tokens(CommentTokens(d.doc)) \cup Tokens(CommentTokens(s.doc))) = {}
            /\ \A nm \in Names : nm \in Tokens(last.out.Title) => Declares(s, nm)
            /\ Tokens(CommentTokens(s.comment)) \subseteq Tokens(last.out.Title)

\* The target is declared by the second Spec and again by a later one or the
\* same, in a parenthesized, documented group whose Specs carry doc comments.
C3_Witness ==
    /\ Documented
    /\ TitleNode.kind = "GenDecl"
    /\ TitleNode.lparen # NoPos
    /\ TitleNode.doc # Nil
    /\ Len(TitleNode.specs) >= 2
    /\ TargetSpec(TitleNode, Obj.name) = 2
    /\ TitleNode.specs[2].doc # Nil
    /\ TitleNode.specs[2].comment # Nil
    /\ TitleNode.specs[1] # TitleNode.specs[2]
    /\ last.out.Title = <<"const", "B", "=", "2", "// two">>

\* The first literal of a group: over the Specs in declaration order, then
\* over the values of the Spec.
HasLit(s) == \E k \in 1..Len(s.values) : s.values[k].lit /\ s.values[k].value # ""
FirstLitOf(d) ==
    LET i == CHOOSE i \in 1..Len(d.specs) :
                HasLit(d.specs[i]) /\ \A j \in 1..(i-1) : ~HasLit(d.specs[j])
        vs == d.specs[i].values
        k == CHOOSE k \in 1..Len(vs) :
                /\ vs[k].lit /\ vs[k].value # ""
                /\ \A m \in 1..(k-1) : ~(vs[m].lit /\ vs[m].value # "")
    IN  vs[k].value

\* C4: when the walk returns at a group with a doc comment, DocText is the
\* doc text followed by "\nConstant Value: " and the first literal of the
\* group if the group is a const group with a literal, else the doc text alone.
C4_ConstantValue ==
    Documented /\ last.out.docAt > 0 /\ DocNode.kind = "GenDecl" =>
        /\ DocNode.doc # Nil
        /\ last.out.Doc =
              IF DocNode.tok = "const" /\ \E i \in 1..Len(DocNode.specs) : HasLit(DocNode.specs[i])
              THEN Text(DocNode.doc) \o "\nConstant Value: " \o FirstLitOf(DocNode)
              ELSE Text(DocNode.doc)

\* B of const ( A = 1; B = 2 ) was resolved: DocText ends in A's literal.
C4_Witness ==
    /\ Documented
    /\ last.out.docAt > 0
    /\ DocNode.kind = "GenDecl"
    /\ DocNode.tok = "const"
    /\ Obj.name = "B"
    /\ DocNode.specs = ConstAB
    /\ last.out.Doc = "Foo does X.\n\nConstant Value: 1"
    /\ last.out.Title = <<"const", "B", "=", "2">>

\* C5: a Field reached by the walk with a leading comment supplies that
\* comment's text, else with a trailing comment that one's text; the walk
\* returns there and no node outward of it supplies DocText.
C5_FieldRule ==
    Documented =>
        \A i \in 1..Len(Chain) :
            /\ Chain[i].kind = "Field"
            /\ Chain[i].doc # Nil \/ Chain[i].comment # Nil
            /\ \A j \in 1..(i-1) : ~Commented(Chain[j])
            => /\ last.out.docAt = i
               /\ last.out.Doc = IF Chain[i].doc # Nil THEN Text(Chain[i].doc)
                                 ELSE Text(Chain[i].comment)

\* A Field with both comments supplied its leading one inside a documented
\* declaration.
C5_Witness ==
    /\ Documented
    /\ last.out.docAt > 0
    /\ DocNode.kind = "Field"
    /\ DocNode.doc # Nil /\ DocNode.comment # Nil
    /\ last.out.Doc = "lead\n\n more\n"
    /\ \E j \in (last.out.docAt + 1)..Len(Chain) : Yield(Chain[j]) # ""

\* C6: a package name is redirected to the package-level lookup keyed by the
\* imported package's path: no title, no chain, no walk, whatever the chain.
C6_AliasRedirect ==
    Called /\ Obj.alias =>
        /\ last.out = PackageDoc(LibPath)
        /\ last.out.Import = LibPath
        /\ last.out.Import # AppPath
        /\ last.out.Title = <<>>
        /\ last.out.titleAt = 0 /\ last.out.docAt = 0

\* A package name was looked up where the chain at its position holds a
\* group that does not declare it.
C6_Witness ==
    /\ Called /\ Obj.alias
    /\ last.out.kind = "Doc"
    /\ last.out.Import = LibPath
    /\ Chain # <<>>
    /\ Chain[1].kind = "GenDecl"
    /\ findVarSpec(Chain[1], Obj.name) = 0

\* C7: a lookup of anything but a package name ends in NotFound exactly when
\* the chain is empty, in NoDocumentation exactly when the chain is not empty
\* and holds no renderable node, and else in a Doc with Name, ImportPath and
\* Title, whose DocText is empty when no rule fired.
C7_ThreeOutcomes ==
    Called /\ ~Obj.alias =>
        /\ last.out.kind \in {"NotFound", "NoDocumentation", "Doc"}
        /\ last.out.kind = "NotFound" <=> Chain = <<>>
        /\ last.out.kind = "NoDocumentation" <=>
              Chain # <<>> /\ \A i \in 1..Len(Chain) : ~Supported(Chain[i])
        /\ last.out.kind = "Doc" =>
              /\ last.out.Name = Obj.name
              /\ last.out.Import = Obj.pkg
              /\ last.out.Title # <<>>
              /\ (last.out.docAt = 0 => last.out.Doc = "")

\* C8: a lookup leaves every node of the shared tree as it was.
C8_TreeUnchanged == [][tree' = tree]_vars

\* Titles were rendered from a documented function with a body and from a
\* parenthesized, documented group: the tree still holds them.
C8_Witness ==
    /\ Documented
    /\ \/ /\ TitleNode.kind = "FuncDecl"
          /\ TitleNode.doc # Nil /\ TitleNode.body # NilBody
          /\ last.out.Title = <<"func", "F", "(x int) int">>
       \/ /\ TitleNode.kind = "GenDecl"
          /\ TitleNode.doc # Nil /\ TitleNode.lparen # NoPos
          /\ Len(TitleNode.specs) = 2 /\ Len(last.out.Title) > 0

\* C9: a call with the identifier of an earlier call has the earlier call's
\* outcome, whatever was looked up in between.
C9_Idempotent ==
    Called /\ ref.kind = "call" /\ last.id = ref.id => last.out = ref.out

\* An identifier was looked up again after a lookup of another identifier.
C9_Witness ==
    /\ Called /\ ref.kind = "call"
    /\ last.id = ref.id
    /\ mixed
    /\ last.out.kind = "Doc"
    /\ last.out.docAt > last.out.titleAt

\* C10: the Title is rendered from the innermost renderable node and DocText
\* is supplied by that node or one outward of it; when that node is a group
\* without doc comment or a Field without comments, DocText is empty or comes
\* from a node strictly outward.
C10_TitleInnermost ==
    Documented =>
        /\ last.out.titleAt = Least(Chain, Supported)
        /\ last.out.Title = formatNode(TitleNode, Obj).title
        /\ last.out.docAt = 0 \/ last.out.docAt >= last.out.titleAt
        /\ ~Commented(TitleNode) =>
              /\ last.out.docAt = 0 \/ last.out.docAt > last.out.titleAt
              /\ last.out.Doc = IF last.out.docAt = 0 THEN "" ELSE Yield(DocNode)

\* The title of an undocumented inner declaration is paired with the
\* documentation of an enclosing one.
C10_Witness ==
    /\ Documented
    /\ ~Commented(TitleNode)
    /\ last.out.docAt > last.out.titleAt
    /\ last.out.Doc # ""

====
